---- MODULE Spec2Model ----
(***************************************************************************)
(* A model of le_path (src/le_path/le_path.cpp): the command model of a    *)
(* 2D path, its builder, the simplified-SVG scanner, the tracer and the    *)
(* resampler.                                                              *)
(*                                                                         *)
(* Numbers.  The program computes in single-precision floats.  A float is  *)
(* modelled as a fixed-point integer holding Scale times its value; a      *)
(* product is rescaled by Scale, a quotient is taken with floor, and a     *)
(* square root is the integer square root.  Values that are whole numbers  *)
(* in the program (the coordinates used here, axis-aligned lengths) are    *)
(* exact in the model.                                                     *)
(*                                                                         *)
(* Faults.  An assert() of the source aborts the process when asserts are  *)
(* compiled in and is absent under NDEBUG; std::vector::back() and front() *)
(* on an empty vector are undefined behaviour.  An operation yields the    *)
(* kind of fault it met ("ub", "assert_or_ub": a failed assert before      *)
(* undefined behaviour, "assert_or_return": a failed assert before a       *)
(* return); the build and the machine decide what becomes of it, and       *)
(* `fault` is the way the process has ended, if it has.                    *)
(***************************************************************************)
EXTENDS Integers, Sequences, FiniteSets, TLC

VARIABLES
    self,      \* the le_path_o object: subpaths, polylines, sample_interval
    fault,     \* "none", or how the process ended
    diag,      \* number of warnings the last public call wrote to stderr
    pc,        \* "idle", or "parsing" inside le_path_add_from_simplified_svg
    svg,       \* the text of the current / last add_from_simplified_svg call
    svgStart,  \* self.subpaths when that call began
    cursor,    \* the scan cursor `c`, as a 1-based index into svg
    loc,       \* the scanner's locals p0, p1, p2
    last,      \* the last public call and its arguments
    pre        \* the command model and the interval when the last public call began

vars == <<self, fault, diag, pc, svg, svgStart, cursor, loc, last, pre>>

(***************************************************************************)
(* Bounds of the model                                                     *)
(***************************************************************************)
MaxCmds == 3          \* commands in the path beyond which the builder actions stop
MaxTokens == 2        \* pieces concatenated into a generated svg text
MaxLineCmds == 4      \* commands of the sub-path the resampler is given (SpecLines)
MaxSeamCmds == 6      \* commands of the sub-path the resampler is given (SpecSeams)

(***************************************************************************)
(* Fixed-point floats                                                      *)
(***************************************************************************)
Scale == 1000

F(n) == n * Scale

Abs(a) == IF a < 0 THEN -a ELSE a

FMul(a, b) == (a * b) \div Scale

\* A float holds 24 significant bits: whole numbers of 1/Scale below 2^24 are
\* held exactly, larger ones are rounded to the nearest number that fits
\* (ties to the even one).  FloatUlp(a) is the spacing of those near a >= 0.
FloatUlp(a) ==
    IF a < 16777216 THEN 1
    ELSE IF a < 33554432 THEN 2
    ELSE IF a < 67108864 THEN 4
    ELSE IF a < 134217728 THEN 8
    ELSE IF a < 268435456 THEN 16
    ELSE IF a < 536870912 THEN 32
    ELSE IF a < 1073741824 THEN 64
    ELSE 128

\* The whole number of spacings nearest to q + r2 / (2 u): q or q + 1, the
\* even one of the two when r2 = u.
NearestEven(q, r2, u) ==
    IF r2 < u THEN q ELSE IF r2 > u THEN q + 1 ELSE q + (q % 2)

RoundToUlp(a, u) == u * NearestEven(a \div u, 2 * (a % u), u)

RoundSigned(x, u) == IF x < 0 THEN -RoundToUlp(-x, u) ELSE RoundToUlp(x, u)

\* The float result of an operation whose exact result is x.
Float(x) ==
    IF -16777216 < x /\ x < 16777216 THEN x ELSE RoundSigned(x, FloatUlp(Abs(x)))

RECURSIVE BitLen(_)
BitLen(q) == IF q = 0 THEN 0 ELSE 1 + BitLen(q \div 2)

RECURSIVE Pow2(_)
Pow2(n) == IF n <= 0 THEN 1 ELSE 2 * Pow2(n - 1)

\* The integer square root of n by Newton's iteration from x, x * x >= n > 0.
RECURSIVE SqrtNewton(_, _)
SqrtNewton(n, x) ==
    LET y == (x + n \div x) \div 2
    IN  IF y >= x THEN x ELSE SqrtNewton(n, y)

Vertex(x, y) == [x |-> x, y |-> y]

VZero == Vertex(0, 0)

VAdd(a, b) == Vertex(a.x + b.x, a.y + b.y)

VSub(a, b) == Vertex(a.x - b.x, a.y - b.y)

\* k * c for a component c of a direction: k itself when c is 1.
ScaleBy(k, c) ==
    IF c = Scale THEN k ELSE IF c = -Scale THEN -k ELSE FMul(k, c)

VScale(k, a) == Vertex(ScaleBy(k, a.x), ScaleBy(k, a.y))

\* glm::distance: the length of b - a.
Distance(a, b) ==
    LET dx == Abs(b.x - a.x)
        dy == Abs(b.y - a.y)
    IN  IF dy = 0 THEN dx
        ELSE IF dx = 0 THEN dy
        ELSE SqrtNewton(dx * dx + dy * dy, dx + dy)

(***************************************************************************)
(* The command model                                                       *)
(***************************************************************************)
PathCommand(type, p, c1, c2) == [type |-> type, p |-> p, c1 |-> c1, c2 |-> c2]

CmdMoveTo(p) == PathCommand("eMoveTo", p, VZero, VZero)

CmdLineTo(p) == PathCommand("eLineTo", p, VZero, VZero)

CmdQuadBezierTo(p, c1) == PathCommand("eQuadBezierTo", p, c1, VZero)

CmdCubicBezierTo(p, c1, c2) == PathCommand("eCubicBezierTo", p, c1, c2)

CmdClosePath == PathCommand("eClosePath", VZero, VZero, VZero)

\* A Polyline as default-constructed.
EmptyPolyline == [vertices |-> << >>, distances |-> << >>, total_distance |-> 0]

\* le_path_create: new le_path_o().
le_path_create ==
    [subpaths |-> << >>, polylines |-> << >>, sample_interval |-> 0]

Back(s) == s[Len(s)]

\* The result of a call: the object after it, the fault it ended in, and the
\* number of warnings it printed.
Returned(o) == [self |-> o, fault |-> "none", diag |-> 0]

\* A failed assert( cond ): abort when asserts are compiled in; otherwise
\* execution runs on into the undefined behaviour the assert guarded.
Violated(o) == [self |-> o, fault |-> "assert_or_ub", diag |-> 0]

\* Undefined behaviour no assert guards.
Undefined(o) == [self |-> o, fault |-> "ub", diag |-> 0]

\* PushCommand that writes over the last command: commands.back() = cmd.
PushCommandOverLast(o, cmd) ==
    [o EXCEPT !.subpaths[Len(o.subpaths)] =
                  Append(SubSeq(@, 1, Len(@) - 1), cmd)]

\* PushCommand that drops the polylines, as an edit that invalidates what
\* was derived would: self->polylines.clear() after the push_back.
PushCommandInvalidates(o, cmd) ==
    [o EXCEPT !.subpaths[Len(o.subpaths)] = Append(@, cmd),
              !.polylines = << >>]

\* subpaths.back().commands.push_back( cmd )
PushCommand(o, cmd) ==
    [o EXCEPT !.subpaths[Len(o.subpaths)] = Append(@, cmd)]

\* le_path_clear without polylines.clear().
le_path_clear_subpaths_only(o) == [o EXCEPT !.subpaths = << >>]

le_path_clear(o) == [o EXCEPT !.subpaths = << >>, !.polylines = << >>]

\* le_path_move_to without subpaths.emplace_back(): with a sub-path present
\* the MoveTo goes into it.
le_path_move_to_into_last(o, p) ==
    IF o.subpaths = << >>
    THEN Returned([o EXCEPT !.subpaths = Append(@, <<CmdMoveTo(p)>>)])
    ELSE Returned(PushCommand(o, CmdMoveTo(p)))

le_path_move_to(o, p) ==
    Returned([o EXCEPT !.subpaths = Append(@, <<CmdMoveTo(p)>>)])

le_path_line_to(o, p) ==
    IF o.subpaths = << >> THEN Violated(o)
    ELSE Returned(PushCommand(o, CmdLineTo(p)))

\* le_path_get_previous_p that takes c.c1, the first control point.
le_path_get_previous_c1(o) ==
    LET c == Back(Back(o.subpaths))
    IN  IF c.type \in {"eMoveTo", "eLineTo", "eQuadBezierTo", "eCubicBezierTo"}
        THEN [p |-> c.c1, isNull |-> FALSE, diag |-> 0]
        ELSE [p |-> VZero, isNull |-> TRUE, diag |-> 1]

\* The result is the previous target point, or "nullptr" with one warning.
le_path_get_previous_p(o) ==
    LET c == Back(Back(o.subpaths))
    IN  IF c.type \in {"eMoveTo", "eLineTo", "eQuadBezierTo", "eCubicBezierTo"}
        THEN [p |-> c.p, isNull |-> FALSE, diag |-> 0]
        ELSE [p |-> VZero, isNull |-> TRUE, diag |-> 1]

\* le_path_line_horiz_to that keeps x and replaces y: {p->x, px}.
le_path_line_horiz_to_keeps_x(o, px) ==
    IF o.subpaths = << >> THEN Violated(o)
    ELSE IF Back(o.subpaths) = << >> THEN Violated(o)
    ELSE LET prev == le_path_get_previous_p(o)
         IN  IF prev.isNull
             THEN [self |-> o, fault |-> "none", diag |-> prev.diag]
             ELSE le_path_line_to(o, Vertex(prev.p.x, px))

le_path_line_horiz_to(o, px) ==
    IF o.subpaths = << >> THEN Violated(o)
    ELSE IF Back(o.subpaths) = << >> THEN Violated(o)
    ELSE LET prev == le_path_get_previous_p(o)
         IN  IF prev.isNull
             THEN [self |-> o, fault |-> "none", diag |-> prev.diag]
             ELSE le_path_line_to(o, Vertex(px, prev.p.y))

le_path_line_vert_to(o, py) ==
    IF o.subpaths = << >> THEN Violated(o)
    ELSE IF Back(o.subpaths) = << >> THEN Violated(o)
    ELSE LET prev == le_path_get_previous_p(o)
         IN  IF prev.isNull
             THEN [self |-> o, fault |-> "none", diag |-> prev.diag]
             ELSE le_path_line_to(o, Vertex(prev.p.x, py))

le_path_quad_bezier_to(o, p, c1) ==
    IF o.subpaths = << >> THEN Violated(o)
    ELSE Returned(PushCommand(o, CmdQuadBezierTo(p, c1)))

le_path_cubic_bezier_to(o, p, c1, c2) ==
    IF o.subpaths = << >> THEN Violated(o)
    ELSE Returned(PushCommand(o, CmdCubicBezierTo(p, c1, c2)))

\* No assert here: back() of an empty vector is reached in every build.
le_path_close_path(o) ==
    IF o.subpaths = << >> THEN Undefined(o)
    ELSE Returned(PushCommand(o, CmdClosePath))

le_path_get_num_polylines(o) == Len(o.polylines)

(***************************************************************************)
(* Tracer.  A tracer state is the Polyline under construction and the      *)
(* fault met so far; once a fault is met nothing more is executed.         *)
(***************************************************************************)
TraceState(polyline, flt) == [polyline |-> polyline, fault |-> flt]

trace_move_to(tr, p) ==
    [tr EXCEPT !.polyline.distances = Append(@, 0),
               !.polyline.vertices = Append(@, p)]

\* trace_line_to that records the length of the segment alone:
\* distances.emplace_back( glm::distance( p, vertices.back() ) ).
trace_line_to_segment_length(tr, p) ==
    IF tr.polyline.vertices = << >> THEN [tr EXCEPT !.fault = "ub"]
    ELSE LET segment == Distance(p, Back(tr.polyline.vertices))
         IN  [tr EXCEPT !.polyline.total_distance = @ + segment,
                        !.polyline.distances = Append(@, segment),
                        !.polyline.vertices = Append(@, p)]

\* polyline.vertices.back() is undefined on an empty polyline.
trace_line_to(tr, p) ==
    IF tr.polyline.vertices = << >> THEN [tr EXCEPT !.fault = "ub"]
    ELSE LET total == tr.polyline.total_distance
                      + Distance(p, Back(tr.polyline.vertices))
         IN  [tr EXCEPT !.polyline.total_distance = total,
                        !.polyline.distances = Append(@, total),
                        !.polyline.vertices = Append(@, p)]

\* trace_close_path that leaves the polyline open.
trace_close_path_open(tr) ==
    IF tr.polyline.vertices = << >> THEN [tr EXCEPT !.fault = "ub"]
    ELSE tr

\* polyline.vertices.front() is undefined on an empty polyline.
trace_close_path(tr) ==
    IF tr.polyline.vertices = << >> THEN [tr EXCEPT !.fault = "ub"]
    ELSE trace_line_to(tr, tr.polyline.vertices[1])

\* t = i * delta_t, delta_t = 1.f / float( resolution )
CurveT(i, resolution) == (i * Scale) \div resolution

\* b = one_minus_t_sq * p0 + 2 * one_minus_t * t * c1 + t_sq * p1
QuadBezierPoint(p0, c1, p1, t) ==
    LET t_sq           == FMul(t, t)
        one_minus_t    == Scale - t
        one_minus_t_sq == FMul(one_minus_t, one_minus_t)
        w1             == FMul(2 * one_minus_t, t)
    IN  Vertex(FMul(one_minus_t_sq, p0.x) + FMul(w1, c1.x) + FMul(t_sq, p1.x),
               FMul(one_minus_t_sq, p0.y) + FMul(w1, c1.y) + FMul(t_sq, p1.y))

\* b = one_minus_t_cub * p0 + 3 * one_minus_t_sq * t * c1
\*     + 3 * one_minus_t * t_sq * c2 + t_cub * p1
CubicBezierPoint(p0, c1, c2, p1, t) ==
    LET t_sq            == FMul(t, t)
        t_cub           == FMul(t_sq, t)
        one_minus_t     == Scale - t
        one_minus_t_sq  == FMul(one_minus_t, one_minus_t)
        one_minus_t_cub == FMul(one_minus_t_sq, one_minus_t)
        w1              == FMul(3 * one_minus_t_sq, t)
        w2              == FMul(3 * one_minus_t, t_sq)
    IN  Vertex(FMul(one_minus_t_cub, p0.x) + FMul(w1, c1.x)
                   + FMul(w2, c2.x) + FMul(t_cub, p1.x),
               FMul(one_minus_t_cub, p0.y) + FMul(w1, c1.y)
                   + FMul(w2, c2.y) + FMul(t_cub, p1.y))

\* The body of the loops of trace_quad_bezier_to / trace_cubic_bezier_to.
TraceEmit(polyline, b, p_prev) ==
    LET total == polyline.total_distance + Distance(b, p_prev)
    IN  [polyline EXCEPT !.total_distance = total,
                         !.distances = Append(@, total),
                         !.vertices = Append(@, b)]

RECURSIVE TraceQuadLoop(_, _, _, _, _, _, _)
TraceQuadLoop(polyline, p0, c1, p1, p_prev, i, resolution) ==
    IF i > resolution THEN polyline
    ELSE LET b    == QuadBezierPoint(p0, c1, p1, CurveT(i, resolution))
             next == TraceEmit(polyline, b, p_prev)
         IN  TraceQuadLoop(next, p0, c1, p1, b, i + 1, resolution)

\* trace_quad_bezier_to whose loop begins at i = 0: the start point is
\* emitted once more.
trace_quad_bezier_to_from_start(tr, p1, c1, resolution) ==
    IF resolution = 0 THEN tr
    ELSE IF resolution = 1 THEN trace_line_to(tr, p1)
    ELSE IF tr.polyline.vertices = << >>
         THEN [tr EXCEPT !.fault = "assert_or_ub"]
    ELSE LET p0 == Back(tr.polyline.vertices)
         IN  [tr EXCEPT !.polyline =
                  TraceQuadLoop(@, p0, c1, p1, p0, 0, resolution)]

trace_quad_bezier_to(tr, p1, c1, resolution) ==
    IF resolution = 0 THEN tr
    ELSE IF resolution = 1 THEN trace_line_to(tr, p1)
    ELSE IF tr.polyline.vertices = << >>
         THEN [tr EXCEPT !.fault = "assert_or_ub"]
    ELSE LET p0 == Back(tr.polyline.vertices)
         IN  [tr EXCEPT !.polyline =
                  TraceQuadLoop(@, p0, c1, p1, p0, 1, resolution)]

RECURSIVE TraceCubicLoop(_, _, _, _, _, _, _, _)
TraceCubicLoop(polyline, p0, c1, c2, p1, p_prev, i, resolution) ==
    IF i > resolution THEN polyline
    ELSE LET b    == CubicBezierPoint(p0, c1, c2, p1, CurveT(i, resolution))
             next == TraceEmit(polyline, b, p_prev)
         IN  TraceCubicLoop(next, p0, c1, c2, p1, b, i + 1, resolution)

\* With resolution 1 the end point is added without a distance.
trace_cubic_bezier_to(tr, p1, c1, c2, resolution) ==
    IF resolution = 0 THEN tr
    ELSE IF resolution = 1
         THEN [tr EXCEPT !.polyline.vertices = Append(@, p1)]
    ELSE IF tr.polyline.vertices = << >>
         THEN [tr EXCEPT !.fault = "assert_or_ub"]
    ELSE LET p0 == Back(tr.polyline.vertices)
         IN  [tr EXCEPT !.polyline =
                  TraceCubicLoop(@, p0, c1, c2, p1, p0, 1, resolution)]

\* constexpr size_t resolution = 12 in le_path_trace_path
TraceResolution == 12

\* The switch of le_path_trace_path on one command.
TraceCommand(tr, command) ==
    CASE command.type = "eMoveTo" -> trace_move_to(tr, command.p)
      [] command.type = "eLineTo" -> trace_line_to(tr, command.p)
      [] command.type = "eQuadBezierTo" ->
             trace_quad_bezier_to(tr, command.p, command.c1,
                                  TraceResolution)
      [] command.type = "eCubicBezierTo" ->
             trace_cubic_bezier_to(tr, command.p, command.c1, command.c2,
                                   TraceResolution)
      [] command.type = "eClosePath" -> trace_close_path(tr)

\* The inner loop of le_path_trace_path over s.commands, from command k on.
RECURSIVE TraceCommands(_, _, _)
TraceCommands(tr, commands, k) ==
    IF k > Len(commands) \/ tr.fault # "none" THEN tr
    ELSE LET next == TraceCommand(tr, commands[k])
         IN  TraceCommands(next, commands, k + 1)

\* One iteration of the outer loop: the Polyline of sub-path s.
TraceSubPath(s) ==
    TraceCommands(TraceState(EmptyPolyline, "none"), s, 1)

\* The outer loop of le_path_trace_path over self->subpaths, from sub-path k
\* on; polylines is what has been emplaced so far.
RECURSIVE TraceSubPaths(_, _, _)
TraceSubPaths(polylines, subpaths, k) ==
    IF k > Len(subpaths) THEN [polylines |-> polylines, fault |-> "none"]
    ELSE LET tr == TraceSubPath(subpaths[k])
         IN  IF tr.fault # "none"
             THEN [polylines |-> polylines, fault |-> tr.fault]
             ELSE LET emplaced == Append(polylines, tr.polyline)
                  IN  TraceSubPaths(emplaced, subpaths, k + 1)

\* le_path_trace_path without polylines.clear().
le_path_trace_path_no_clear(o) ==
    LET r == TraceSubPaths(o.polylines, o.subpaths, 1)
    IN  [self |-> [o EXCEPT !.polylines = r.polylines],
         fault |-> r.fault, diag |-> 0]

\* self->polylines.clear(), then one polyline per sub-path.
le_path_trace_path(o) ==
    LET r == TraceSubPaths(<< >>, o.subpaths, 1)
    IN  [self |-> [o EXCEPT !.polylines = r.polylines],
         fault |-> r.fault, diag |-> 0]

(***************************************************************************)
(* Resampler.  A resampler state is the Polyline under construction, the   *)
(* float sum_distance of le_path_resample, and the fault met so far (an    *)
(* "assert_or_return" does not stop the loops: under NDEBUG they go on).   *)
(* interval is positive (the interface's contract: interval > 0).          *)
(***************************************************************************)
ResampleState(polyline, sum_distance, flt) ==
    [polyline |-> polyline, sum_distance |-> sum_distance, fault |-> flt]

\* Half the spacing of the floats next to q, as the fraction 1 / HalfUlpInverse
\* (q < 2^24).
HalfUlpInverse(q) == Pow2(25 - BitLen(q))

\* The float quotient of a >= 0 and b > 0 with whole part q and remainder r,
\* rounded down: q, or q + 1 when the quotient lies so close below q + 1
\* that the division rounds to it.
FloorOfQuotient(q, r, b) ==
    IF r # 0 /\ b - r <= b \div HalfUlpInverse(q) THEN q + 1 ELSE q

\* The same quotient rounded up: q + 1, or q when the division rounds to q.
CeilOfQuotient(q, r, b) ==
    IF r = 0 \/ (q > 0 /\ r <= b \div HalfUlpInverse(q)) THEN q ELSE q + 1

\* std::floor( a / b ) for b > 0, as a whole number.  The quotient of
\* numbers below 2^24 is never rounded across a whole number.
FloorDiv(a, b) ==
    IF Abs(a) < 16777216 /\ b < 16777216 THEN a \div b
    ELSE IF a < 0 THEN -CeilOfQuotient((-a) \div b, (-a) % b, b)
    ELSE FloorOfQuotient(a \div b, a % b, b)

resample_move_to(rs, p) == [rs EXCEPT !.polyline.vertices = Append(@, p)]

\* A component of ( p - start_point ) / distance: a component that is the
\* whole distance gives exactly 1 or -1.
UnitComponent(d, distance) ==
    IF d = distance THEN Scale
    ELSE IF d = -distance THEN -Scale
    ELSE (d * Scale) \div distance

\* direction is p - start_point divided by distance; with distance 0 it is
\* not a number, and then no interval fits and it is never used.
LineDirection(p, start_point, distance) ==
    IF distance = 0 THEN VZero
    ELSE Vertex(UnitComponent(Float(p.x - start_point.x), distance),
                UnitComponent(Float(p.y - start_point.y), distance))

FloatVertex(v) == Vertex(Float(v.x), Float(v.y))

\* start_point + direction * along, each sum a float.
LineVertex(start_point, direction, along) ==
    FloatVertex(VAdd(start_point, VScale(along, direction)))

\* The vertices start_point + direction * ( i * interval + start_distance ),
\* i = k .. n_intervals, appended to vertices.
RECURSIVE ResampleLineLoop(_, _, _, _, _, _, _)
ResampleLineLoop(vertices, start_point, direction, start_distance, interval, i, n_intervals) ==
    IF i > n_intervals THEN vertices
    ELSE ResampleLineLoop(Append(vertices,
                                 LineVertex(start_point, direction,
                                            Float(Float(i * interval) + start_distance))),
                          start_point, direction, start_distance, interval,
                          i + 1, n_intervals)

\* float start_distance: how far sum_distance is into the next step.
LineStartDistance(sum_distance, interval) ==
    Float(sum_distance - Float(FloorDiv(sum_distance, interval) * interval))

\* int n_intervals: how many intervals fit between the two points.
LineIntervalsFit(distance, start_distance, interval) ==
    FloorDiv(Float(distance - start_distance), interval)

\* int n_intervals of resample_line_to, for a line to p met in state rs
\* with a vertex present.
LineIntervalCount(rs, p, interval) ==
    LineIntervalsFit(Float(Distance(p, Back(rs.polyline.vertices))),
                     LineStartDistance(rs.sum_distance, interval), interval)

\* The loop and the accumulation of resample_line_to.
ResampleLineEmit(rs, interval, start_point, direction, start_distance, n_intervals) ==
    [rs EXCEPT
        !.polyline.vertices =
            ResampleLineLoop(@, start_point, direction, start_distance,
                             interval, 1, n_intervals),
        !.sum_distance =
            Float(@ + Float(start_distance + Float(n_intervals * interval)))]

\* resample_line_to from start_point, the last vertex, at distance from p.
ResampleLineFrom(rs, p, interval, start_point, distance, start_distance) ==
    ResampleLineEmit(rs, interval, start_point,
                     LineDirection(p, start_point, distance), start_distance,
                     LineIntervalsFit(distance, start_distance, interval))

\* resample_line_to that ends each line with its target point:
\* vertices.emplace_back( p ) after the loop.
resample_line_to_and_endpoint(rs, p, interval) ==
    IF rs.polyline.vertices = << >>
    THEN [rs EXCEPT !.fault = "assert_or_return"]
    ELSE [ResampleLineFrom(rs, p, interval, Back(rs.polyline.vertices),
                           Float(Distance(p, Back(rs.polyline.vertices))),
                           LineStartDistance(rs.sum_distance, interval))
             EXCEPT !.polyline.vertices = Append(@, p)]

\* On an empty polyline: assert( false ); return.
resample_line_to(rs, p, interval) ==
    IF rs.polyline.vertices = << >>
    THEN [rs EXCEPT !.fault = "assert_or_return"]
    ELSE ResampleLineFrom(rs, p, interval, Back(rs.polyline.vertices),
                          Float(Distance(p, Back(rs.polyline.vertices))),
                          LineStartDistance(rs.sum_distance, interval))

\* One iteration of the curve loops, given the evaluated point b.  The loop
\* state holds the resampler state, previous_vertex, num_intervals and
\* last_vertex_distance.
ResampleCurveStep(ls, b, interval) ==
    LET last_vertex_distance == ls.last_vertex_distance
                                + Distance(ls.previous_vertex, b)
        current_interval     == FloorDiv(last_vertex_distance, interval)
    IN  IF current_interval > ls.num_intervals
        THEN [rs |-> [ls.rs EXCEPT !.polyline.vertices = Append(@, b),
                                   !.sum_distance = last_vertex_distance],
              previous_vertex |-> b,
              num_intervals |-> current_interval,
              last_vertex_distance |-> last_vertex_distance]
        ELSE [ls EXCEPT !.previous_vertex = b,
                        !.last_vertex_distance = last_vertex_distance]

\* The loop state on entry to a curve loop.
ResampleCurveEntry(rs, interval) ==
    [rs |-> rs,
     previous_vertex |-> Back(rs.polyline.vertices),
     num_intervals |-> FloorDiv(rs.sum_distance, interval),
     last_vertex_distance |-> rs.sum_distance]

\* The loop for ( i = lo; i <= hi; i++ ) of resample_quad_bezier_to from
\* loop state ls.  The range is halved so that the evaluation does not nest
\* once per iteration; the test on the first half's result is always true and
\* only has it evaluated before the second half starts.
RECURSIVE ResampleQuadLoop(_, _, _, _, _, _, _, _)
ResampleQuadLoop(ls, p0, c1, p1, lo, hi, resolution, interval) ==
    IF lo > hi THEN ls
    ELSE IF lo = hi
         THEN LET b == QuadBezierPoint(p0, c1, p1, CurveT(lo, resolution))
              IN  ResampleCurveStep(ls, b, interval)
    ELSE LET mid   == (lo + hi) \div 2
             first == ResampleQuadLoop(ls, p0, c1, p1, lo, mid, resolution, interval)
         IN  IF first.num_intervals >= 0
             THEN ResampleQuadLoop(first, p0, c1, p1, mid + 1, hi, resolution,
                                   interval)
             ELSE first

resample_quad_bezier_to(rs, p1, c1, resolution, interval) ==
    IF resolution = 0 THEN rs
    ELSE IF resolution = 1 THEN resample_line_to(rs, p1, interval)
    ELSE IF rs.polyline.vertices = << >>
         THEN [rs EXCEPT !.fault = "assert_or_ub"]
    ELSE LET entry == ResampleCurveEntry(rs, interval)
         IN  ResampleQuadLoop(entry, entry.previous_vertex, c1, p1,
                              1, resolution, resolution, interval).rs

\* The loop of resample_cubic_bezier_to, evaluated as ResampleQuadLoop is.
RECURSIVE ResampleCubicLoop(_, _, _, _, _, _, _, _, _)
ResampleCubicLoop(ls, p0, c1, c2, p1, lo, hi, resolution, interval) ==
    IF lo > hi THEN ls
    ELSE IF lo = hi
         THEN LET b == CubicBezierPoint(p0, c1, c2, p1, CurveT(lo, resolution))
              IN  ResampleCurveStep(ls, b, interval)
    ELSE LET mid   == (lo + hi) \div 2
             first == ResampleCubicLoop(ls, p0, c1, c2, p1, lo, mid, resolution,
                                        interval)
         IN  IF first.num_intervals >= 0
             THEN ResampleCubicLoop(first, p0, c1, c2, p1, mid + 1, hi,
                                    resolution, interval)
             ELSE first

resample_cubic_bezier_to(rs, p1, c1, c2, resolution, interval) ==
    IF resolution = 0 THEN rs
    ELSE IF resolution = 1 THEN resample_line_to(rs, p1, interval)
    ELSE IF rs.polyline.vertices = << >>
         THEN [rs EXCEPT !.fault = "assert_or_ub"]
    ELSE LET entry == ResampleCurveEntry(rs, interval)
         IN  ResampleCubicLoop(entry, entry.previous_vertex, c1, c2, p1,
                               1, resolution, resolution, interval).rs

\* resample_close_path that adds the first vertex only when the line has
\* not ended on it.
resample_close_path_unless_closed(rs, interval) ==
    IF rs.polyline.vertices = << >>
    THEN [rs EXCEPT !.fault = IF @ = "none" THEN "ub" ELSE "assert_or_ub"]
    ELSE LET front == rs.polyline.vertices[1]
             r     == resample_line_to(rs, front, interval)
         IN  [r EXCEPT
                 !.sum_distance = @ + Distance(front, Back(r.polyline.vertices)),
                 !.polyline.vertices =
                     IF Back(@) = front THEN @ ELSE Append(@, front)]

\* polyline.vertices.front() is undefined on an empty polyline.
resample_close_path(rs, interval) ==
    IF rs.polyline.vertices = << >>
    THEN [rs EXCEPT !.fault = IF @ = "none" THEN "ub" ELSE "assert_or_ub"]
    ELSE LET front == rs.polyline.vertices[1]
             r     == resample_line_to(rs, front, interval)
         IN  [r EXCEPT
                 !.sum_distance = @ + Distance(front, Back(r.polyline.vertices)),
                 !.polyline.vertices = Append(@, front)]

\* constexpr size_t resolution = 100 in le_path_resample
ResampleResolution == 100

\* The switch of le_path_resample on one command.
ResampleCommand(rs, command, interval) ==
    CASE command.type = "eMoveTo" -> resample_move_to(rs, command.p)
      [] command.type = "eLineTo" ->
             resample_line_to(rs, command.p, interval)
      [] command.type = "eQuadBezierTo" ->
             resample_quad_bezier_to(rs, command.p, command.c1,
                                     ResampleResolution, interval)
      [] command.type = "eCubicBezierTo" ->
             resample_cubic_bezier_to(rs, command.p, command.c1, command.c2,
                                      ResampleResolution, interval)
      [] command.type = "eClosePath" ->
             resample_close_path(rs, interval)

\* The inner loop of le_path_resample over s.commands, from command k on.
RECURSIVE ResampleCommands(_, _, _, _)
ResampleCommands(rs, commands, k, interval) ==
    IF k > Len(commands) \/ rs.fault \notin {"none", "assert_or_return"} THEN rs
    ELSE LET next == ResampleCommand(rs, commands[k], interval)
         IN  ResampleCommands(next, commands, k + 1, interval)

\* One iteration of the outer loop: sum_distance starts at 0.  flt is the
\* fault pending from the sub-paths before.
ResampleSubPath(s, interval, flt) ==
    ResampleCommands(ResampleState(EmptyPolyline, 0, flt), s, 1, interval)

RECURSIVE ResampleSubPaths(_, _, _, _, _)
ResampleSubPaths(polylines, subpaths, k, interval, flt) ==
    IF k > Len(subpaths) THEN [polylines |-> polylines, fault |-> flt]
    ELSE LET rs == ResampleSubPath(subpaths[k], interval, flt)
         IN  IF rs.fault \notin {"none", "assert_or_return"}
             THEN [polylines |-> polylines, fault |-> rs.fault]
             ELSE LET emplaced == Append(polylines, rs.polyline)
                  IN  ResampleSubPaths(emplaced, subpaths, k + 1, interval,
                                       rs.fault)

\* le_path_resample without polylines.clear().
le_path_resample_no_clear(o, interval) ==
    LET r == ResampleSubPaths(o.polylines, o.subpaths, 1, interval, "none")
    IN  [self |-> [o EXCEPT !.polylines = r.polylines,
                            !.sample_interval = interval],
         fault |-> r.fault, diag |-> 0]

\* self->polylines.clear(); self->sample_interval = interval; then one
\* polyline per sub-path.
le_path_resample(o, interval) ==
    LET r == ResampleSubPaths(<< >>, o.subpaths, 1, interval, "none")
    IN  [self |-> [o EXCEPT !.polylines = r.polylines,
                            !.sample_interval = interval],
         fault |-> r.fault, diag |-> 0]

(***************************************************************************)
(* Scanner.  A text is a sequence of one-character strings; the C string's *)
(* terminating 0 is read one past its last character.  The alphabet used   *)
(* holds no character of an exponent, a hexadecimal number, "inf" or       *)
(* "nan", so strtof reads: white space, a sign, digits, a point, digits.   *)
(***************************************************************************)
NUL == "NUL"

CharAt(s, c) == IF c > Len(s) THEN NUL ELSE s[c]

Digits == {"0", "1", "2", "3", "4", "5", "6", "7", "8", "9"}

DigitValue(ch) ==
    CASE ch = "0" -> 0 [] ch = "1" -> 1 [] ch = "2" -> 2 [] ch = "3" -> 3
      [] ch = "4" -> 4 [] ch = "5" -> 5 [] ch = "6" -> 6 [] ch = "7" -> 7
      [] ch = "8" -> 8 [] ch = "9" -> 9

\* *c == 0x20 || *c == 0x9 || *c == 0xD || *c == 0xA
WhitespaceChars == {" ", "\t", "\r", "\n"}

RECURSIVE SpaceEnd(_, _)
SpaceEnd(s, c) == IF CharAt(s, c) \in WhitespaceChars THEN SpaceEnd(s, c + 1) ELSE c

RECURSIVE DigitsEnd(_, _)
DigitsEnd(s, c) == IF CharAt(s, c) \in Digits THEN DigitsEnd(s, c + 1) ELSE c

\* The whole number written by the digits s[a] .. s[b-1], after acc.
RECURSIVE WholeValue(_, _, _, _)
WholeValue(s, a, b, acc) ==
    IF a >= b THEN acc ELSE WholeValue(s, a + 1, b, acc * 10 + DigitValue(s[a]))

\* The fixed-point value of the fraction digits s[a] .. s[b-1]; weight is the
\* value of a one in the place before s[a].
RECURSIVE FractionValue(_, _, _, _)
FractionValue(s, a, b, weight) ==
    IF a >= b THEN 0
    ELSE (DigitValue(s[a]) * weight) \div 10
         + FractionValue(s, a + 1, b, weight \div 10)

\* strtof( c, &num_end ): the value, and num_end (c itself when no number is
\* there, and then the value is 0).
Strtof(s, c) ==
    LET a        == SpaceEnd(s, c)
        negative == CharAt(s, a) = "-"
        b        == IF CharAt(s, a) \in {"+", "-"} THEN a + 1 ELSE a
        whole    == DigitsEnd(s, b)
        point    == CharAt(s, whole) = "."
        num_end  == IF point THEN DigitsEnd(s, whole + 1) ELSE whole
        nDigits  == (whole - b) + (IF point THEN num_end - (whole + 1) ELSE 0)
        value    == F(WholeValue(s, b, whole, 0))
                    + (IF point THEN FractionValue(s, whole + 1, num_end, Scale)
                       ELSE 0)
    IN  IF nDigits = 0 THEN [val |-> 0, num_end |-> c]
        ELSE [val |-> IF negative THEN -value ELSE value, num_end |-> num_end]

\* Vertex p0 = {}, p1 = {}, p2 = {} of le_path_add_from_simplified_svg
ScanLocals == [p0 |-> VZero, p1 |-> VZero, p2 |-> VZero]

\* A matcher is one operand of a conjunction a && b && ...: it is given the
\* state m the operands before it have left - ok (all of them succeeded), the
\* offset counted so far, and loc, the locals p0, p1, p2 the output pointers
\* point into - and yields the state after it.  It reads the text at
\* c + m.offset; with ok false it is not evaluated.  out names the local, axis
\* the coordinate an output pointer points to.

\* int offset = 0, int local_offset = 0: nothing matched or counted yet.
Matching(locals) == [ok |-> TRUE, offset |-> 0, loc |-> locals]

NoMatch(m) == [m EXCEPT !.ok = FALSE]

\* *f = strtof( c, &num_end ); *offset += ( num_end - c );
\* return num_end != c, with r what strtof yields at c.
FloatNumberRead(m, c, out, axis, r) ==
    [ok |-> r.num_end # c,
     offset |-> m.offset + (r.num_end - c),
     loc |-> [m.loc EXCEPT ![out][axis] = r.val]]

\* *f is assigned also when no number is there.
is_float_number(s, c, m, out, axis) ==
    IF ~m.ok THEN m
    ELSE IF CharAt(s, c + m.offset) = NUL THEN NoMatch(m)
    ELSE FloatNumberRead(m, c + m.offset, out, axis, Strtof(s, c + m.offset))

is_character_match(needle, s, c, m) ==
    IF ~m.ok THEN m
    ELSE IF CharAt(s, c + m.offset) = NUL THEN NoMatch(m)
    ELSE IF CharAt(s, c + m.offset) = needle THEN [m EXCEPT !.offset = @ + 1]
    ELSE NoMatch(m)

\* The while loop has stopped at end.
WhitespaceSkipped(m, c, end) ==
    [m EXCEPT !.ok = end # c, !.offset = @ + (end - c)]

is_whitespace(s, c, m) ==
    IF ~m.ok THEN m
    ELSE IF CharAt(s, c + m.offset) = NUL THEN NoMatch(m)
    ELSE WhitespaceSkipped(m, c + m.offset, SpaceEnd(s, c + m.offset))

\* The last operand of a matcher: reached when every operand before it
\* succeeded, it adds the local offset to the total; otherwise the total is
\* left, and what was written through the output pointers stays written.
add_offsets(offset_local, offset_total) ==
    IF offset_local.ok
    THEN [ok |-> TRUE, offset |-> offset_total.offset + offset_local.offset,
          loc |-> offset_local.loc]
    ELSE [ok |-> FALSE, offset |-> offset_total.offset,
          loc |-> offset_local.loc]

\* is_float_number && is_character_match( ',' ) && is_float_number at c,
\* with int local_offset = 0.
CoordinatePairAt(s, c, locals, out) ==
    is_float_number(s, c,
        is_character_match(",", s, c,
            is_float_number(s, c, Matching(locals), out, "x")),
        out, "y")

is_coordinate_pair(s, c, m, out) ==
    IF ~m.ok THEN m
    ELSE IF CharAt(s, c + m.offset) = NUL THEN NoMatch(m)
    ELSE add_offsets(CoordinatePairAt(s, c + m.offset, m.loc, out), m)

\* The conjunction shared by is_m_instruction and is_l_instruction:
\* the letter, white space, a coordinate pair.
LetterPair(letter, s, c, m) ==
    IF CharAt(s, c) = NUL THEN NoMatch(m)
    ELSE add_offsets(
             is_coordinate_pair(s, c,
                 is_whitespace(s, c,
                     is_character_match(letter, s, c, Matching(m.loc))),
                 "p0"),
             m)

is_m_instruction(s, c, m) == LetterPair("M", s, c, m)

is_l_instruction(s, c, m) == LetterPair("L", s, c, m)

\* The conjunction shared by is_h_instruction and is_v_instruction:
\* the letter, white space, a number.
LetterNumber(letter, s, c, m, axis) ==
    IF CharAt(s, c) = NUL THEN NoMatch(m)
    ELSE add_offsets(
             is_float_number(s, c,
                 is_whitespace(s, c,
                     is_character_match(letter, s, c, Matching(m.loc))),
                 "p0", axis),
             m)

\* called with &p0.x
is_h_instruction(s, c, m) == LetterNumber("H", s, c, m, "x")

\* called with &p0.y
is_v_instruction(s, c, m) == LetterNumber("V", s, c, m, "y")

is_q_instruction(s, c, m) ==
    IF CharAt(s, c) = NUL THEN NoMatch(m)
    ELSE add_offsets(
             is_coordinate_pair(s, c,
                 is_whitespace(s, c,
                     is_coordinate_pair(s, c,
                         is_whitespace(s, c,
                             is_character_match("Q", s, c, Matching(m.loc))),
                         "p0")),
                 "p1"),
             m)

is_c_instruction(s, c, m) ==
    IF CharAt(s, c) = NUL THEN NoMatch(m)
    ELSE add_offsets(
             is_coordinate_pair(s, c,
                 is_whitespace(s, c,
                     is_coordinate_pair(s, c,
                         is_whitespace(s, c,
                             is_coordinate_pair(s, c,
                                 is_whitespace(s, c,
                                     is_character_match("C", s, c,
                                                        Matching(m.loc))),
                                 "p0")),
                         "p1")),
                 "p2"),
             m)

\* A branch of the loop body taken: the builder call made and its outcome,
\* the cursor and the locals after it, and the token matched.  A call that
\* faults does not return, so the cursor is not advanced.
ScanBranch(token, call, c, offset, locals) ==
    [token |-> token, call |-> call, advance |-> offset,
     c |-> IF call.fault = "none" THEN c + offset ELSE c,
     loc |-> locals]

\* The if statements of the loop body, last to first: each is given the
\* value m of its condition, and falls through to the next when it is false.
\* offset is 0 until a matcher succeeds; a matcher that fails leaves in the
\* locals what it wrote.
ScanIfZ(o, s, c, m) ==
    IF m.ok THEN ScanBranch("Z", le_path_close_path(o), c, m.offset, m.loc)
    ELSE ScanBranch("none", Returned(o), c, 1, m.loc)

ScanIfQ(o, s, c, m) ==
    IF m.ok
    THEN ScanBranch("Q", le_path_quad_bezier_to(o, m.loc.p1, m.loc.p0), c,
                    m.offset, m.loc)
    ELSE ScanIfZ(o, s, c, is_character_match("Z", s, c, Matching(m.loc)))

\* The C branch with the arguments in the order of the text:
\* le_path_cubic_bezier_to( self, p0, p1, p2 ).
ScanIfCInTextOrder(o, s, c, m) ==
    IF m.ok
    THEN ScanBranch("C", le_path_cubic_bezier_to(o, m.loc.p0, m.loc.p1,
                                                 m.loc.p2),
                    c, m.offset, m.loc)
    ELSE ScanIfQ(o, s, c, is_q_instruction(s, c, Matching(m.loc)))

ScanIfC(o, s, c, m) ==
    IF m.ok
    THEN ScanBranch("C", le_path_cubic_bezier_to(o, m.loc.p2, m.loc.p0,
                                                 m.loc.p1),
                    c, m.offset, m.loc)
    ELSE ScanIfQ(o, s, c, is_q_instruction(s, c, Matching(m.loc)))

ScanIfV(o, s, c, m) ==
    IF m.ok
    THEN ScanBranch("V", le_path_line_vert_to(o, m.loc.p0.y), c, m.offset,
                    m.loc)
    ELSE ScanIfC(o, s, c, is_c_instruction(s, c, Matching(m.loc)))

ScanIfH(o, s, c, m) ==
    IF m.ok
    THEN ScanBranch("H", le_path_line_horiz_to(o, m.loc.p0.x), c, m.offset,
                    m.loc)
    ELSE ScanIfV(o, s, c, is_v_instruction(s, c, Matching(m.loc)))

ScanIfL(o, s, c, m) ==
    IF m.ok
    THEN ScanBranch("L", le_path_line_to(o, m.loc.p0), c, m.offset, m.loc)
    ELSE ScanIfH(o, s, c, is_h_instruction(s, c, Matching(m.loc)))

ScanIfM(o, s, c, m) ==
    IF m.ok
    THEN ScanBranch("M", le_path_move_to(o, m.loc.p0), c, m.offset, m.loc)
    ELSE ScanIfL(o, s, c, is_l_instruction(s, c, Matching(m.loc)))

\* One iteration of the for loop of le_path_add_from_simplified_svg at cursor
\* c (not at the terminator).
ScanIteration(o, s, c, l) ==
    ScanIfM(o, s, c, is_m_instruction(s, c, Matching(l)))

(***************************************************************************)
(* Inputs                                                                  *)
(***************************************************************************)
MaxCmdsBeforeSvg == 1 \* add_from_simplified_svg is called on paths this small

V00 == Vertex(F(0), F(0))

V10_0 == Vertex(F(10), F(0))

V10_10 == Vertex(F(10), F(10))

MovePoints == {V00, V10_0}

LinePoints == {V10_10}

HValues == {F(5)}

VValues == {F(5)}

QuadArgs == {[p |-> V10_10, c1 |-> V10_0]}

CubicArgs == {[p |-> V10_10, c1 |-> Vertex(F(0), F(5)), c2 |-> Vertex(F(5), F(10))]}

Intervals == {F(4)}

\* "M0,0 L10,0 L10,10 Z"
SvgClosedTriangleTight ==
    <<"M", "0", ",", "0", " ", "L", "1", "0", ",", "0", " ",
      "L", "1", "0", ",", "1", "0", " ", "Z">>

\* "M 0,0 L 10,0 L 10,10 Z"
SvgClosedTriangle ==
    <<"M", " ", "0", ",", "0", " ", "L", " ", "1", "0", ",", "0", " ",
      "L", " ", "1", "0", ",", "1", "0", " ", "Z">>

\* "M0,0 H5 V5"
SvgHorizVertTight == <<"M", "0", ",", "0", " ", "H", "5", " ", "V", "5">>

\* "M 0,0 H 5 V 5"
SvgHorizVert ==
    <<"M", " ", "0", ",", "0", " ", "H", " ", "5", " ", "V", " ", "5">>

SvgSamples ==
    {SvgClosedTriangleTight, SvgClosedTriangle, SvgHorizVertTight, SvgHorizVert}

\* The pieces generated texts are made of: well-formed tokens, a token
\* without its white space, a lower-case token, a truncated token, an unknown
\* character and a separator.
SvgPieces ==
    { <<"M", " ", "0", ",", "0">>,
      <<"L", " ", "1", "0", ",", "-", "2", ".", "5">>,
      <<"H", " ", "5">>,
      <<"V", "\t", "5">>,
      <<"C", " ", "0", ",", "5", " ", "5", ",", "1", "0", " ", "1", "0", ",", "1", "0">>,
      <<"Q", " ", "1", "0", ",", "0", " ", "1", "0", ",", "1", "0">>,
      <<"Z">>,
      <<" ">>,
      <<"M", "1", ",", "1">>,
      <<"l", " ", "1", ",", "1">>,
      <<"L", " ", "7", ",">>,
      <<"#">> }

RECURSIVE SvgTexts(_)
SvgTexts(n) ==
    IF n = 0 THEN {<< >>}
    ELSE SvgTexts(n - 1)
         \cup {t \o piece : t \in SvgTexts(n - 1), piece \in SvgPieces}

(***************************************************************************)
(* The state machine                                                       *)
(***************************************************************************)
Call(op, p, c1, c2, f) == [op |-> op, p |-> p, c1 |-> c1, c2 |-> c2, f |-> f]

NoCall == Call("create", VZero, VZero, VZero, 0)

\* What is remembered of the object a call began with.
Before(o) ==
    [subpaths |-> o.subpaths, sample_interval |-> o.sample_interval,
     num_polylines |-> Len(o.polylines)]

RECURSIVE CountCommands(_, _)
CountCommands(subpaths, k) ==
    IF k > Len(subpaths) THEN 0
    ELSE Len(subpaths[k]) + CountCommands(subpaths, k + 1)

NumCommands == CountCommands(self.subpaths, 1)

\* What a fault turns into.  Undefined behaviour: the process is killed, or
\* it runs on with memory overwritten.  A failed assert: an abort, or under
\* NDEBUG whatever follows it.
Manifestations(f) ==
    CASE f = "ub" -> {"crash", "corrupt"}
      [] f = "assert_or_ub" -> {"assert", "crash", "corrupt"}
      [] f = "assert_or_return" -> {"assert", "none"}
      [] OTHER -> {f}

Running == fault = "none" /\ pc = "idle"

\* A public call other than add_from_simplified_svg has been made and has
\* ended with result r.
Completes(call, result) ==
    /\ LET r == result
       IN  /\ self' = r.self
           /\ fault' \in Manifestations(r.fault)
           /\ diag' = r.diag
    /\ last' = call
    /\ pre' = Before(self)
    /\ svg' = << >>
    /\ svgStart' = << >>
    /\ cursor' = 1
    /\ loc' = ScanLocals
    /\ UNCHANGED pc

\* trace and resample leave the command model alone: what is known of the
\* text it came from stays.
Derives(call, result) ==
    /\ LET r == result
       IN  /\ self' = r.self
           /\ fault' \in Manifestations(r.fault)
           /\ diag' = r.diag
    /\ last' = call
    /\ pre' = Before(self)
    /\ UNCHANGED <<pc, svg, svgStart, cursor, loc>>

Init ==
    /\ self = le_path_create
    /\ fault = "none"
    /\ diag = 0
    /\ pc = "idle"
    /\ svg = << >>
    /\ svgStart = << >>
    /\ cursor = 1
    /\ loc = ScanLocals
    /\ last = NoCall
    /\ pre = Before(le_path_create)

Clear ==
    /\ Running
    /\ Completes(Call("clear", VZero, VZero, VZero, 0),
                 Returned(le_path_clear(self)))

MoveTo(p) ==
    /\ Running
    /\ NumCommands < MaxCmds
    /\ Completes(Call("move_to", p, VZero, VZero, 0), le_path_move_to(self, p))

LineTo(p) ==
    /\ Running
    /\ NumCommands < MaxCmds
    /\ Completes(Call("line_to", p, VZero, VZero, 0),
                 le_path_line_to(self, p))

LineHorizTo(px) ==
    /\ Running
    /\ NumCommands < MaxCmds
    /\ Completes(Call("line_horiz_to", VZero, VZero, VZero, px),
                 le_path_line_horiz_to(self, px))

LineVertTo(py) ==
    /\ Running
    /\ NumCommands < MaxCmds
    /\ Completes(Call("line_vert_to", VZero, VZero, VZero, py),
                 le_path_line_vert_to(self, py))

QuadBezierTo(p, c1) ==
    /\ Running
    /\ NumCommands < MaxCmds
    /\ Completes(Call("quad_bezier_to", p, c1, VZero, 0),
                 le_path_quad_bezier_to(self, p, c1))

CubicBezierTo(p, c1, c2) ==
    /\ Running
    /\ NumCommands < MaxCmds
    /\ Completes(Call("cubic_bezier_to", p, c1, c2, 0),
                 le_path_cubic_bezier_to(self, p, c1, c2))

ClosePath ==
    /\ Running
    /\ NumCommands < MaxCmds
    /\ Completes(Call("close", VZero, VZero, VZero, 0), le_path_close_path(self))

Trace ==
    /\ Running
    /\ Derives(Call("trace", VZero, VZero, VZero, 0),
               le_path_trace_path(self))

Resample(interval) ==
    /\ Running
    /\ Derives(Call("resample", VZero, VZero, VZero, interval),
               le_path_resample(self, interval))

\* le_path_add_from_simplified_svg is entered: c = svg, the locals are zero.
AddFromSimplifiedSvg(text) ==
    /\ Running
    /\ NumCommands <= MaxCmdsBeforeSvg
    /\ pc' = "parsing"
    /\ svg' = text
    /\ svgStart' = self.subpaths
    /\ cursor' = 1
    /\ loc' = ScanLocals
    /\ last' = Call("add_from_simplified_svg", VZero, VZero, VZero, 0)
    /\ pre' = Before(self)
    /\ diag' = 0
    /\ UNCHANGED <<self, fault>>

\* The loop test *c != 0 fails: the call returns.
ScanReturn ==
    /\ pc = "parsing"
    /\ fault = "none"
    /\ CharAt(svg, cursor) = NUL
    /\ pc' = "idle"
    /\ UNCHANGED <<self, fault, diag, svg, svgStart, cursor, loc, last, pre>>

\* One iteration of the loop.
ScanStep ==
    /\ pc = "parsing"
    /\ fault = "none"
    /\ CharAt(svg, cursor) # NUL
    /\ LET it == ScanIteration(self, svg, cursor, loc)
       IN  /\ self' = it.call.self
           /\ fault' \in Manifestations(it.call.fault)
           /\ diag' = diag + it.call.diag
           /\ cursor' = it.c
           /\ loc' = it.loc
    /\ UNCHANGED <<pc, svg, svgStart, last, pre>>

Next ==
    \/ Clear
    \/ \E p \in MovePoints : MoveTo(p)
    \/ \E p \in LinePoints : LineTo(p)
    \/ \E px \in HValues : LineHorizTo(px)
    \/ \E py \in VValues : LineVertTo(py)
    \/ \E a \in QuadArgs : QuadBezierTo(a.p, a.c1)
    \/ \E a \in CubicArgs : CubicBezierTo(a.p, a.c1, a.c2)
    \/ ClosePath
    \/ Trace
    \/ \E interval \in Intervals : Resample(interval)
    \/ \E text \in SvgSamples : AddFromSimplifiedSvg(text)
    \/ ScanStep
    \/ ScanReturn

Spec == Init /\ [][Next]_vars

\* The scanner on generated texts, on a fresh path or after one move_to.
NextScan ==
    \/ MoveTo(V00) /\ self.subpaths = << >>
    \/ \E text \in SvgTexts(MaxTokens) : AddFromSimplifiedSvg(text)
    \/ ScanStep
    \/ ScanReturn
    \/ Trace

SpecScan == Init /\ [][NextScan]_vars

\* The scanner on texts about the curve tokens: the two tokens, a token that
\* matches before them, one that does not and leaves numbers in the
\* scanner's locals, and a separator.
CurvePieces ==
    { <<"C", " ", "0", ",", "5", " ", "5", ",", "1", "0", " ", "1", "0", ",", "1", "0">>,
      <<"Q", " ", "1", "0", ",", "0", " ", "1", "0", ",", "1", "0">>,
      <<"M", " ", "0", ",", "0">>,
      <<"L", " ", "7", ",">>,
      <<" ">> }

RECURSIVE CurveTexts(_)
CurveTexts(n) ==
    IF n = 0 THEN {<< >>}
    ELSE CurveTexts(n - 1)
         \cup {t \o piece : t \in CurveTexts(n - 1), piece \in CurvePieces}

NextScanCurves ==
    \/ MoveTo(V00) /\ self.subpaths = << >>
    \/ \E text \in CurveTexts(MaxTokens) : AddFromSimplifiedSvg(text)
    \/ ScanStep
    \/ ScanReturn

SpecScanCurves == Init /\ [][NextScanCurves]_vars

(***************************************************************************)
(* The resampler on one sub-path.  The builder calls are those of Spec,    *)
(* made with their preconditions met: one move_to on the empty path, then  *)
(* lines and close_path up to max commands.  The targets are such that     *)
(* every length is a whole number or the diagonal of the triangle of Spec. *)
(***************************************************************************)
\* Targets on the x axis: before the first interval boundary, on the second
\* one, between boundaries, and 100 units away.
LineEnds ==
    {Vertex(F(3), F(0)), Vertex(F(8), F(0)), V10_0, Vertex(F(100), F(0))}

LineIntervals == {F(4), F(10)}

\* The corners of the triangle, and a point closer to (0,0) than the
\* remainder a closed triangle leaves in sum_distance.
SeamEnds == {V10_0, V10_10, Vertex(F(1) \div 4, F(0))}

StartSubPath(p) ==
    /\ Running
    /\ self.subpaths = << >>
    /\ Completes(Call("move_to", p, VZero, VZero, 0), le_path_move_to(self, p))

ExtendLine(p, max) ==
    /\ Running
    /\ self.subpaths # << >>
    /\ NumCommands < max
    /\ Completes(Call("line_to", p, VZero, VZero, 0),
                 le_path_line_to(self, p))

ExtendClose(max) ==
    /\ Running
    /\ self.subpaths # << >>
    /\ NumCommands < max
    /\ Completes(Call("close", VZero, VZero, VZero, 0), le_path_close_path(self))

NextLines ==
    \/ StartSubPath(V00)
    \/ \E p \in LineEnds : ExtendLine(p, MaxLineCmds)
    \/ ExtendClose(MaxLineCmds)
    \/ \E interval \in LineIntervals : Resample(interval)

SpecLines == Init /\ [][NextLines]_vars

NextSeams ==
    \/ StartSubPath(V00)
    \/ \E p \in SeamEnds : ExtendLine(p, MaxSeamCmds)
    \/ ExtendClose(MaxSeamCmds)
    \/ \E interval \in Intervals : Resample(interval)

SpecSeams == Init /\ [][NextSeams]_vars

\* Targets on the x axis and intervals that are floats (24 significant bits)
\* while whole multiples of the intervals are not: 3 * 6947247 and
\* 9 * 2047669 need 25 bits.
FloatEnds ==
    {Vertex(3000000, 0), Vertex(18791844, 0), Vertex(22589284, 0),
     Vertex(28703028, 0)}

FloatIntervals == {2047669, 6947247}

NextFloats ==
    \/ StartSubPath(V00)
    \/ \E p \in FloatEnds : ExtendLine(p, MaxLineCmds)
    \/ \E interval \in FloatIntervals : Resample(interval)

SpecFloats == Init /\ [][NextFloats]_vars

(***************************************************************************)
(* Properties.  In what follows a text is "scanned from an empty path"     *)
(* when add_from_simplified_svg was entered with no sub-path present.      *)
(***************************************************************************)

\* add_from_simplified_svg( text ), entered on a path without sub-paths, is
\* over: it has returned, or it has stopped in a fault.
ScanOver(text) ==
    /\ svg = text
    /\ svgStart = << >>
    /\ last.op = "add_from_simplified_svg"
    /\ (pc = "idle" \/ fault # "none")

\* trace() has been called after add_from_simplified_svg( text ) returned,
\* with no builder call in between.
TracedAfterScan(text) ==
    /\ svg = text
    /\ svgStart = << >>
    /\ pc = "idle"
    /\ last.op = "trace"

\* The triangle (0,0), (10,0), (10,10) traced back to its first vertex, the
\* last cumulative distance being closing.
TrianglePolyline(closing) ==
    [vertices |-> <<V00, V10_0, V10_10, V00>>,
     distances |-> <<F(0), F(10), F(20), closing>>,
     total_distance |-> closing]

RoundTripsToTriangle(text, closing) ==
    /\ ScanOver(text) => fault = "none"
    /\ TracedAfterScan(text) =>
           /\ fault = "none"
           /\ self.polylines = <<TrianglePolyline(closing)>>

\* C1 (as the code has it): parsing "M 0,0 L 10,0 L 10,10 Z" - every command
\* letter but Z followed by white space - on an empty path and then calling
\* trace() yields exactly one polyline with the 4 vertices (0,0), (10,0),
\* (10,10), (0,0) and the cumulative distances 0, 10, 20 and
\* 20 + sqrt(200), about 34.142: the closing edge is the diagonal.
C1_RoundTrip == RoundTripsToTriangle(SvgClosedTriangle, F(34) + 142)

C1_Witness ==
    /\ TracedAfterScan(SvgClosedTriangle)
    /\ fault = "none"
    /\ le_path_get_num_polylines(self) = 1
    /\ Len(self.polylines[1].vertices) = 4

\* C1 as stated: "M0,0 L10,0 L10,10 Z", distances 0, 10, 20, 30.
C1_RoundTripTight == RoundTripsToTriangle(SvgClosedTriangleTight, F(30))

HorizVertCommands == <<CmdMoveTo(V00), CmdLineTo(Vertex(F(5), F(0))),
                       CmdLineTo(Vertex(F(5), F(5)))>>

ParsesToHorizVert(text) ==
    ScanOver(text) =>
        /\ fault = "none"
        /\ self.subpaths = <<HorizVertCommands>>

\* C2 (as the code has it): parsing "M 0,0 H 5 V 5" on an empty path yields
\* a command model of exactly one sub-path with the commands MoveTo(0,0),
\* LineTo(5,0), LineTo(5,5), in that order.
C2_HorizVert == ParsesToHorizVert(SvgHorizVert)

C2_Witness ==
    /\ ScanOver(SvgHorizVert)
    /\ pc = "idle"
    /\ Len(self.subpaths) = 1
    /\ Len(self.subpaths[1]) = 3

\* C2 as stated, on "M0,0 H5 V5".
C2_HorizVertTight == ParsesToHorizVert(SvgHorizVertTight)

AppendOps == {"line_to", "quad_bezier_to", "cubic_bezier_to", "close"}

\* The command an append-type call has been asked to append.
AppendedCommand(call) ==
    CASE call.op = "line_to" -> CmdLineTo(call.p)
      [] call.op = "quad_bezier_to" -> CmdQuadBezierTo(call.p, call.c1)
      [] call.op = "cubic_bezier_to" ->
             CmdCubicBezierTo(call.p, call.c1, call.c2)
      [] call.op = "close" -> CmdClosePath

\* C3 as stated: line_to, quad_bezier_to, cubic_bezier_to or close_path on a
\* path without a sub-path ends in the checked error (the failed assert) and
\* leaves the command model as it was; never a crash, never overwritten
\* memory.
C3_CheckedPrecondition ==
    (last.op \in AppendOps /\ pre.subpaths = << >>) =>
        /\ fault = "assert"
        /\ self.subpaths = pre.subpaths

\* C4 as stated: horizontal_line_to as the first call on an empty path does
\* not fault, adds no sub-path and no command, and prints a diagnostic.
C4_HorizFirstIsNoOp ==
    (last.op = "line_horiz_to" /\ pre.subpaths = << >>) =>
        /\ fault = "none"
        /\ self.subpaths = << >>
        /\ diag >= 1

\* C5 as stated: whatever the text, add_from_simplified_svg meets no fault
\* and no violated builder precondition while it scans.
C5_ScanWithoutFault ==
    last.op = "add_from_simplified_svg" => fault = "none"

\* C6 as stated: when add_from_simplified_svg has stopped, the scan cursor
\* is exactly at the terminator of the text.
C6_ScanReachesEnd ==
    (last.op = "add_from_simplified_svg" /\ (pc = "idle" \/ fault # "none"))
        => cursor = Len(svg) + 1

PointTypes == {"eMoveTo", "eLineTo", "eQuadBezierTo", "eCubicBezierTo"}

\* subpaths with cmd at the end of its last sub-path.
WithAppended(subpaths, cmd) ==
    [subpaths EXCEPT ![Len(subpaths)] = Append(@, cmd)]

\* Every builder call a caller can make next on o returns.
BuilderCallsSucceed(o) ==
    /\ \A p \in MovePoints : le_path_move_to(o, p).fault = "none"
    /\ \A p \in LinePoints : le_path_line_to(o, p).fault = "none"
    /\ \A a \in QuadArgs : le_path_quad_bezier_to(o, a.p, a.c1).fault = "none"
    /\ \A a \in CubicArgs :
           le_path_cubic_bezier_to(o, a.p, a.c1, a.c2).fault = "none"
    /\ le_path_close_path(o).fault = "none"

\* C7: horizontal_line_to(x) / vertical_line_to(y) after a MoveTo, LineTo,
\* QuadBezierTo or CubicBezierTo with endpoint (ex, ey) appends exactly one
\* LineTo(x, ey) / LineTo(ex, y) to the last sub-path, from the endpoint and
\* never from a control point; after a ClosePath the call changes nothing
\* in the command model, prints one warning, and the builder calls that
\* follow still succeed.
C7_RelativeLines ==
    (last.op \in {"line_horiz_to", "line_vert_to"} /\ pre.subpaths # << >>) =>
        LET c == Back(Back(pre.subpaths))
            target == IF last.op = "line_horiz_to"
                      THEN Vertex(last.f, c.p.y)
                      ELSE Vertex(c.p.x, last.f)
        IN  /\ fault = "none"
            /\ c.type \in PointTypes =>
                   /\ self.subpaths =
                          WithAppended(pre.subpaths, CmdLineTo(target))
                   /\ diag = 0
            /\ c.type = "eClosePath" =>
                   /\ self.subpaths = pre.subpaths
                   /\ diag = 1
                   /\ BuilderCallsSucceed(self)

C7_Witness ==
    /\ last.op = "line_horiz_to"
    /\ pre.subpaths # << >>
    /\ Back(Back(pre.subpaths)).type = "eCubicBezierTo"
    /\ fault = "none"
    /\ Back(Back(self.subpaths)) = CmdLineTo(Vertex(F(5), F(10)))

IsPrefix(s, t) ==
    /\ Len(s) <= Len(t)
    /\ \A i \in 1..Len(s) : s[i] = t[i]

\* Every sub-path of before is in after at the same position, with every
\* command it had, at the same position.
GrownFrom(before, after) ==
    /\ Len(before) <= Len(after)
    /\ \A i \in 1..Len(before) : IsPrefix(before[i], after[i])

\* C8: move_to(p) always succeeds and adds the one sub-path <<MoveTo(p)>> at
\* the end; line_to, quad_bezier_to, cubic_bezier_to and close_path, with a
\* sub-path present, succeed and append their one command to the last
\* sub-path; and whatever call but clear has been made (a builder call,
\* trace, resample, or add_from_simplified_svg at any point of its scan),
\* every sub-path and every command present when it began is still there,
\* unchanged and at the same position.
C8_GrowsByAppend ==
    /\ last.op = "move_to" =>
           /\ fault = "none"
           /\ self.subpaths = Append(pre.subpaths, <<CmdMoveTo(last.p)>>)
    /\ (last.op \in AppendOps /\ pre.subpaths # << >>) =>
           /\ fault = "none"
           /\ self.subpaths = WithAppended(pre.subpaths, AppendedCommand(last))
    /\ last.op \notin {"clear", "create"} =>
           GrownFrom(pre.subpaths, self.subpaths)

C8_Witness ==
    /\ last.op = "add_from_simplified_svg"
    /\ pc = "idle"
    /\ pre.subpaths # << >>
    /\ Len(self.subpaths) > Len(pre.subpaths)
    /\ Len(Back(self.subpaths)) > 1

\* C9 (as the code has it): after clear(), reached from any state, the path
\* has no sub-paths and no polylines; the recorded resample interval is not
\* reset: it keeps the value it had before the call.
C9_Clear ==
    last.op = "clear" =>
        /\ fault = "none"
        /\ self.subpaths = << >>
        /\ self.polylines = << >>
        /\ self.sample_interval = pre.sample_interval

C9_Witness ==
    /\ last.op = "clear"
    /\ pre.subpaths # << >>
    /\ pre.num_polylines > 0
    /\ pre.sample_interval # 0
    /\ self.sample_interval # 0

\* C9 as stated: after clear() every field equals that of a fresh path.
C9_ClearIsFresh == last.op = "clear" => self = le_path_create

\* C10: when trace() or resample(interval) has returned, get_num_polylines()
\* is the number of sub-paths, and polyline i is what sub-path i alone
\* yields, its first vertex being the MoveTo point of sub-path i.
C10_OnePolylinePerSubPath ==
    (last.op \in {"trace", "resample"} /\ fault = "none") =>
        /\ le_path_get_num_polylines(self) = Len(self.subpaths)
        /\ \A i \in 1..Len(self.subpaths) :
               /\ self.subpaths[i][1].type = "eMoveTo"
               /\ self.polylines[i].vertices[1] = self.subpaths[i][1].p
               /\ self.polylines[i] =
                      IF last.op = "trace"
                      THEN TraceSubPath(self.subpaths[i]).polyline
                      ELSE ResampleSubPath(self.subpaths[i], last.f,
                                           "none").polyline

C10_Witness ==
    /\ last.op = "resample"
    /\ fault = "none"
    /\ Len(self.subpaths) = 2
    /\ le_path_get_num_polylines(self) = 2
    /\ self.subpaths[1][1].p # self.subpaths[2][1].p
    /\ pre.num_polylines = 1

\* A path as created that holds the given command model.
FreshWith(subpaths) == [le_path_create EXCEPT !.subpaths = subpaths]

\* C11: when trace() or resample(interval) has returned, the polylines are
\* those a single call yields on a path that holds the same command model and
\* has never been traced or resampled: whatever polylines earlier calls left
\* (a resample with the same interval, a trace, a resample after a trace)
\* have no part in the result.
C11_RecomputedWholesale ==
    (last.op \in {"trace", "resample"} /\ fault = "none") =>
        self.polylines =
            IF last.op = "trace"
            THEN le_path_trace_path(FreshWith(self.subpaths)).self.polylines
            ELSE le_path_resample(FreshWith(self.subpaths), last.f).self.polylines

C11_Witness ==
    /\ last.op = "resample"
    /\ fault = "none"
    /\ pre.subpaths = self.subpaths
    /\ pre.num_polylines = Len(self.subpaths)
    /\ pre.sample_interval = last.f
    /\ le_path_get_num_polylines(self) > 0
    /\ Len(self.polylines[1].vertices) > 1

CurveTypes == {"eQuadBezierTo", "eCubicBezierTo"}

\* The number of vertices the first k commands are stated to yield: one for
\* a MoveTo, a LineTo and a ClosePath, the tracer's resolution for a curve.
RECURSIVE StatedVertexCount(_, _)
StatedVertexCount(commands, k) ==
    IF k = 0 THEN 0
    ELSE StatedVertexCount(commands, k - 1)
         + (IF commands[k].type \in CurveTypes THEN TraceResolution ELSE 1)

\* C12: when trace() has returned, polyline i has one vertex for each MoveTo,
\* LineTo and ClosePath of sub-path i and 12 for each QuadBezierTo and
\* CubicBezierTo; the first of the 12 vertices of a curve is not the vertex
\* the curve starts from, and the last of them is the curve's endpoint.
C12_TraceVertexCount ==
    (last.op = "trace" /\ fault = "none") =>
        \A i \in 1..Len(self.subpaths) :
            /\ Len(self.polylines[i].vertices) =
                   StatedVertexCount(self.subpaths[i], Len(self.subpaths[i]))
            /\ \A k \in 2..Len(self.subpaths[i]) :
                   self.subpaths[i][k].type \in CurveTypes =>
                       /\ self.polylines[i].vertices[
                              StatedVertexCount(self.subpaths[i], k)]
                          = self.subpaths[i][k].p
                       /\ self.polylines[i].vertices[
                              StatedVertexCount(self.subpaths[i], k - 1) + 1]
                          # self.polylines[i].vertices[
                                StatedVertexCount(self.subpaths[i], k - 1)]

C12_Witness ==
    /\ last.op = "trace"
    /\ fault = "none"
    /\ Len(self.subpaths) = 1
    /\ Len(self.subpaths[1]) = 3
    /\ self.subpaths[1][2].type = "eQuadBezierTo"
    /\ self.subpaths[1][3].type = "eCubicBezierTo"
    /\ Len(self.polylines[1].vertices) = 1 + 2 * TraceResolution

\* C13: when trace() has returned, every polyline has as many distances as
\* vertices, the first distance is 0, each later distance is the one before
\* it plus the Euclidean distance of its vertex from the vertex before (so
\* the distances never decrease), the vertex of a ClosePath is the polyline's
\* first vertex, and the total is the last distance.
C13_TraceDistances ==
    (last.op = "trace" /\ fault = "none") =>
        \A i \in 1..Len(self.polylines) :
            /\ Len(self.polylines[i].distances) = Len(self.polylines[i].vertices)
            /\ self.polylines[i].distances[1] = 0
            /\ \A j \in 2..Len(self.polylines[i].vertices) :
                   /\ self.polylines[i].distances[j]
                          >= self.polylines[i].distances[j - 1]
                   /\ self.polylines[i].distances[j]
                          = self.polylines[i].distances[j - 1]
                            + Distance(self.polylines[i].vertices[j],
                                       self.polylines[i].vertices[j - 1])
            /\ \A k \in 2..Len(self.subpaths[i]) :
                   self.subpaths[i][k].type = "eClosePath" =>
                       self.polylines[i].vertices[
                           StatedVertexCount(self.subpaths[i], k)]
                       = self.polylines[i].vertices[1]
            /\ self.polylines[i].total_distance
                   = Back(self.polylines[i].distances)

C13_Witness ==
    /\ last.op = "trace"
    /\ fault = "none"
    /\ Len(self.subpaths) = 1
    /\ Len(self.subpaths[1]) = 3
    /\ self.subpaths[1][2].type = "eLineTo"
    /\ self.subpaths[1][3].type = "eClosePath"
    /\ self.polylines[1].distances[3] > self.polylines[1].distances[2]
    /\ self.polylines[1].distances[2] > 0

\* A sub-path is well formed: it has a command, the first is a MoveTo, and
\* no later one is.
StartsWithMoveTo(commands) ==
    /\ Len(commands) >= 1
    /\ commands[1].type = "eMoveTo"
    /\ \A k \in 2..Len(commands) : commands[k].type # "eMoveTo"

\* C20: as long as no call has failed its precondition, every sub-path
\* built by the builder operations and the scanner is well formed; and
\* trace() and resample() on such a path meet no fault: no LineTo, curve or
\* ClosePath finds its polyline empty.
C20_SubPathsStartWithMoveTo ==
    /\ fault = "none" =>
           \A i \in 1..Len(self.subpaths) : StartsWithMoveTo(self.subpaths[i])
    /\ last.op \in {"trace", "resample"} =>
           /\ fault = "none"
           /\ \A i \in 1..Len(self.polylines) :
                  self.polylines[i].vertices # << >>

C20_Witness ==
    /\ last.op = "resample"
    /\ fault = "none"
    /\ svgStart # << >>
    /\ Len(self.subpaths) = 2
    /\ Len(self.subpaths[1]) = 1
    /\ Len(self.subpaths[2]) > 2
    /\ Back(self.subpaths[2]).type = "eClosePath"

\* "C 0,5 5,10 10,10"
SvgCubicToken ==
    <<"C", " ", "0", ",", "5", " ", "5", ",", "1", "0", " ", "1", "0", ",", "1", "0">>

\* "Q 10,0 10,10"
SvgQuadToken == <<"Q", " ", "1", "0", ",", "0", " ", "1", "0", ",", "1", "0">>

\* The scan is under way or has returned, without a fault, and the text
\* before the cursor ends with token.
JustScanned(token) ==
    /\ last.op = "add_from_simplified_svg"
    /\ fault = "none"
    /\ cursor > Len(token)
    /\ SubSeq(svg, cursor - Len(token), cursor - 1) = token

\* C17: when the scan has passed "C 0,5 5,10 10,10", the last command of the
\* path is CubicBezierTo with endpoint (10,10), the third pair, first control
\* (0,5) and second control (5,10); when it has passed "Q 10,0 10,10", the
\* last command is QuadBezierTo with endpoint (10,10), the second pair, and
\* control (10,0): whatever text came before the token, matched or not, and
\* whatever it left in the scanner's locals.
C17_ControlsThenEndpoint ==
    /\ JustScanned(SvgCubicToken) =>
           /\ self.subpaths # << >>
           /\ Back(Back(self.subpaths))
                  = CmdCubicBezierTo(V10_10, Vertex(F(0), F(5)),
                                     Vertex(F(5), F(10)))
    /\ JustScanned(SvgQuadToken) =>
           /\ self.subpaths # << >>
           /\ Back(Back(self.subpaths)) = CmdQuadBezierTo(V10_10, V10_0)

C17_Witness ==
    /\ JustScanned(SvgCubicToken)
    /\ SvgCubicToken \in CurvePieces
    /\ SvgQuadToken \in CurvePieces
    /\ pc = "idle"
    /\ SubSeq(svg, 1, 4) = <<"L", " ", "7", ",">>
    /\ Back(Back(self.subpaths)).type = "eCubicBezierTo"
    /\ loc.p0 = Vertex(F(0), F(5))

Min(a, b) == IF a < b THEN a ELSE b

Max(a, b) == IF a > b THEN a ELSE b

\* v lies on the segment from a to b.
OnSegment(a, v, b) ==
    /\ (v.x - a.x) * (b.y - a.y) = (v.y - a.y) * (b.x - a.x)
    /\ Min(a.x, b.x) <= v.x /\ v.x <= Max(a.x, b.x)
    /\ Min(a.y, b.y) <= v.y /\ v.y <= Max(a.y, b.y)

\* The sub-path with these commands is MoveTo followed by LineTo only.
LinesOnly(commands) ==
    /\ Len(commands) >= 2
    /\ commands[1].type = "eMoveTo"
    /\ \A k \in 2..Len(commands) : commands[k].type = "eLineTo"

\* vertices are the start a of the line to b and, after it, one vertex on
\* the line at each whole multiple of interval up to its length; b is among
\* them once when the length is a whole multiple, and not at all otherwise.
SamplesOfLine(vertices, a, b, interval) ==
    /\ Len(vertices) = 1 + Distance(a, b) \div interval
    /\ vertices[1] = a
    /\ \A i \in 1..(Len(vertices) - 1) :
           /\ Distance(a, vertices[i + 1]) = i * interval
           /\ OnSegment(a, vertices[i + 1], b)
    /\ Cardinality({j \in 1..Len(vertices) : vertices[j] = b})
           = IF Distance(a, b) % interval = 0 THEN 1 ELSE 0

\* The vertices (0,0), (10,0), ..., (100,0).
EveryTenUpToHundred == [j \in 1..11 |-> Vertex(F(10) * (j - 1), F(0))]

\* C14: resample(interval) of the sub-path MoveTo(a), LineTo(b) of length L
\* yields a and then floor(L / interval) vertices on the segment, at the
\* distances interval, 2 interval, ... from a; b is a vertex only when L is a
\* whole multiple of interval, and then once.  With L = 100 and interval 10
\* the vertices are (0,0), (10,0), ..., (100,0).
C14_LineSamples ==
    (/\ last.op = "resample"
     /\ fault = "none"
     /\ Len(self.subpaths) = 1
     /\ Len(self.subpaths[1]) = 2
     /\ LinesOnly(self.subpaths[1])) =>
        /\ SamplesOfLine(self.polylines[1].vertices, self.subpaths[1][1].p,
                         self.subpaths[1][2].p, last.f)
        /\ (self.subpaths[1][2].p = Vertex(F(100), F(0)) /\ last.f = F(10)) =>
               self.polylines[1].vertices = EveryTenUpToHundred

C14_Witness ==
    /\ last.op = "resample"
    /\ fault = "none"
    /\ last.f = F(10)
    /\ self.subpaths = <<(<<CmdMoveTo(V00), CmdLineTo(Vertex(F(100), F(0)))>>)>>
    /\ Len(self.polylines[1].vertices) = 11
    /\ self.polylines[1].vertices[11] = Vertex(F(100), F(0))
    /\ self.polylines[1].vertices[10] # Vertex(F(100), F(0))

\* The targets of commands k .. Len(commands) - 1 lie, one after the other,
\* between the point before them and the last target.
RECURSIVE SplitsInOrder(_, _)
SplitsInOrder(commands, k) ==
    IF k >= Len(commands) THEN TRUE
    ELSE /\ OnSegment(commands[k - 1].p, commands[k].p, Back(commands).p)
         /\ SplitsInOrder(commands, k + 1)

\* u and v have the same number of vertices, each of u less than a quarter
\* of interval away from its counterpart in v.
SameVertices(u, v, interval) ==
    /\ Len(u) = Len(v)
    /\ \A i \in 1..Len(u) : 4 * Distance(u[i], v[i]) < interval

\* C18: when the sub-path is MoveTo(a), LineTo(m1), ..., LineTo(b) with the
\* points m1, ... in order on the segment from a to b, on or off an interval
\* boundary, resample(interval) yields the vertices it yields for MoveTo(a),
\* LineTo(b): as many, at the same places (up to the rounding of a float).
C18_Seamless ==
    (/\ last.op = "resample"
     /\ fault = "none"
     /\ Len(self.subpaths) = 1
     /\ Len(self.subpaths[1]) >= 3
     /\ LinesOnly(self.subpaths[1])
     /\ SplitsInOrder(self.subpaths[1], 2)) =>
        SameVertices(self.polylines[1].vertices,
                     ResampleSubPath(<<self.subpaths[1][1], Back(self.subpaths[1])>>,
                                     last.f, "none").polyline.vertices,
                     last.f)

\* C16: when resample(interval) has returned, the polyline of a sub-path
\* that ends with ClosePath is what the sub-path yields with a LineTo to its
\* first vertex in place of the ClosePath, followed by the first vertex once
\* more; so it begins and ends with the same vertex, also when the line has
\* ended on the first vertex already.
C16_ClosedEndsAtStart ==
    (last.op = "resample" /\ fault = "none") =>
        \A i \in 1..Len(self.subpaths) :
            Back(self.subpaths[i]).type = "eClosePath" =>
                /\ Len(self.polylines[i].vertices) >= 2
                /\ self.polylines[i].vertices[1] = self.subpaths[i][1].p
                /\ Back(self.polylines[i].vertices) = self.subpaths[i][1].p
                /\ self.polylines[i].vertices =
                       Append(ResampleSubPath(
                                  Append(SubSeq(self.subpaths[i], 1,
                                                Len(self.subpaths[i]) - 1),
                                         CmdLineTo(self.subpaths[i][1].p)),
                                  last.f, "none").polyline.vertices,
                              self.subpaths[i][1].p)

C16_Witness ==
    /\ last.op = "resample"
    /\ fault = "none"
    /\ Len(self.subpaths) = 1
    /\ Back(self.subpaths[1]).type = "eClosePath"
    /\ Len(self.polylines[1].vertices) >= 4
    /\ self.polylines[1].vertices[Len(self.polylines[1].vertices) - 1]
           = self.polylines[1].vertices[1]
    /\ Back(self.polylines[1].vertices) = self.polylines[1].vertices[1]

\* A distance of a quarter unit: more than the resampler's curve-evaluation
\* step on the curves used here.
SpacingTolerance == Scale \div 4

\* d is a whole multiple (once at least) of interval, up to the tolerance.
IsSpacedBy(d, interval) ==
    \E n \in 1..(d \div interval + 1) : Abs(d - n * interval) <= SpacingTolerance

\* The positions in the polyline of the vertices ClosePath commands append
\* last, for the commands from k on, met in resampler state rs.
RECURSIVE ClosingDuplicates(_, _, _, _)
ClosingDuplicates(rs, commands, k, interval) ==
    IF k > Len(commands) THEN {}
    ELSE (IF commands[k].type = "eClosePath"
          THEN {Len(ResampleCommand(rs, commands[k], interval).polyline.vertices)}
          ELSE {})
         \cup ClosingDuplicates(ResampleCommand(rs, commands[k], interval),
                                commands, k + 1, interval)

\* C15 as stated: when resample(interval) has returned, any two consecutive
\* vertices of a polyline, neither of them the vertex a ClosePath appended
\* last, are a whole multiple of interval apart, up to the curve-evaluation
\* step: in every order of commands.
C15_EvenSpacing ==
    (last.op = "resample" /\ fault = "none") =>
        \A i \in 1..Len(self.subpaths) :
            \A j \in 2..Len(self.polylines[i].vertices) :
                {j - 1, j} \cap ClosingDuplicates(
                                    ResampleState(EmptyPolyline, 0, "none"),
                                    self.subpaths[i], 1, last.f) = {}
                    => IsSpacedBy(Distance(self.polylines[i].vertices[j - 1],
                                           self.polylines[i].vertices[j]),
                                  last.f)

\* From command k on, met in resampler state rs: no LineTo computes a
\* negative n_intervals, and no command leaves sum_distance smaller than it
\* found it.
RECURSIVE SumDistanceGrows(_, _, _, _)
SumDistanceGrows(rs, commands, k, interval) ==
    IF k > Len(commands) THEN TRUE
    ELSE /\ commands[k].type = "eLineTo" =>
                LineIntervalCount(rs, commands[k].p, interval) >= 0
         /\ ResampleCommand(rs, commands[k], interval).sum_distance
                >= rs.sum_distance
         /\ SumDistanceGrows(ResampleCommand(rs, commands[k], interval),
                             commands, k + 1, interval)

\* C19 as stated: in a resample(interval), whatever sum_distance a LineTo
\* finds, its n is 0 at least, and sum_distance never decreases from one
\* command of a sub-path to the next.
C19_SumDistanceNeverShrinks ==
    (last.op = "resample" /\ fault = "none") =>
        \A i \in 1..Len(self.subpaths) :
            SumDistanceGrows(ResampleState(EmptyPolyline, 0, "none"),
                             self.subpaths[i], 1, last.f)

\* The calls that build the command model, and those that derive polylines.
BuilderOps ==
    {"move_to", "line_to", "line_horiz_to", "line_vert_to", "quad_bezier_to",
     "cubic_bezier_to", "close", "add_from_simplified_svg"}

DeriveOps == {"trace", "resample"}

\* C21: every step of move_to, line_to, quad_bezier_to, cubic_bezier_to,
\* close and add_from_simplified_svg (its entry, each loop iteration with
\* the builder call it makes, and its return) that ends without a fault
\* leaves the polylines as they were, and every trace() and resample() that
\* ends without a fault leaves the sub-paths as they were; so the number of
\* polylines and their vertices stay those of the earlier model until the
\* next trace(), resample() or clear().
C21_DisjointFrames ==
    [][fault' = "none" =>
           /\ last'.op \in BuilderOps =>
                  /\ self'.polylines = self.polylines
                  /\ le_path_get_num_polylines(self')
                         = le_path_get_num_polylines(self)
           /\ last'.op \in DeriveOps => self'.subpaths = self.subpaths]_vars

\* line_to after move_to and trace(): the one polyline is still that of the
\* sub-path without the line, not that of the sub-path as it is now.
C21_Witness ==
    /\ last.op = "line_to"
    /\ fault = "none"
    /\ self.subpaths = <<(<<CmdMoveTo(V00), CmdLineTo(V10_10)>>)>>
    /\ pre.num_polylines = 1
    /\ le_path_get_num_polylines(self) = 1
    /\ self.polylines
           = le_path_trace_path(FreshWith(<<(<<CmdMoveTo(V00)>>)>>)).self.polylines
    /\ self.polylines # le_path_trace_path(FreshWith(self.subpaths)).self.polylines

====
